---- MODULE Spec2Model ----
(***************************************************************************)
(* Model of the selection-triggered annotation pipeline of pedaru-vue:     *)
(*   - useContextMenu            (src/app/composables/useContextMenu.ts)   *)
(*   - the translate / explain route handlers and their response parsers   *)
(*     (src/code_reference/src/app/api/gemini/{translate,explain}/route.ts)*)
(*   - the client settings store and dispatchers                           *)
(*     (src/code_reference/src/lib/settings.ts)                            *)
(*                                                                         *)
(* A JavaScript string is a sequence of symbols.  A symbol is one          *)
(* character, or one run of characters that the code only ever treats as a *)
(* unit (a run of three backticks, written "FENCE"; the word "json"; a JSON *)
(* literal; a key name).                                                   *)
(* JavaScript values are tagged records.                                   *)
(***************************************************************************)
EXTENDS Integers, Sequences, FiniteSets, TLC

VARIABLES
    normOp,       \* which parser ran last: "none", "translate", "explain"
    normText,     \* the raw model text handed to the parser
    normResult,   \* the value the parser returned
    contextMenuPosition,  \* useContextMenu: the ref, Null or [x, y]
    menuCall,     \* the last handler of useContextMenu that ran, with its inputs
    prevPosition, \* contextMenuPosition as that handler found it
    defaultPrevented,     \* whether that handler called e.preventDefault()
    clipboard,    \* the text last written to the system clipboard
    triggered,    \* the callbacks of the options called so far
    hasWindow,    \* typeof window !== 'undefined'
    localStorage, \* the item under GEMINI_SETTINGS_KEY, or NoItem
    settingsCall, \* the last settings function that ran, with input and result
    GEMINI_API_KEY,   \* process.env.GEMINI_API_KEY of the server; <<>> when unset
    phase,        \* of the one request followed: idle, sent, responded, done
    call,         \* the dispatcher call, or the direct request, that began it
    networkRequests,  \* fetches the dispatcher call has issued
    request,      \* the HTTP request in flight to a route
    handled,      \* what the route handler did with it (its inputs and result)
    response,     \* the HTTP response in flight to the caller
    clientResult  \* how the dispatcher call settled: a value or a thrown Error

normVars == <<normOp, normText, normResult>>
menuVars == <<contextMenuPosition, menuCall, prevPosition, defaultPrevented,
              clipboard, triggered>>
settingsVars == <<hasWindow, localStorage, settingsCall>>
backendVars == <<GEMINI_API_KEY, phase, call, networkRequests, request, handled,
                 response, clientResult>>

-----------------------------------------------------------------------------
(* Bounds of the model *)

\* longest points array generated for a model response
MaxPoints == 2
\* largest client coordinate of a contextmenu event
MaxCoord == 1

-----------------------------------------------------------------------------
(* JavaScript values *)

\* Body applied to the value of v: v is evaluated once, however often Body
\* reads it.
Let(v, Body(_)) == CHOOSE y \in {Body(x) : x \in {v}} : TRUE

Undefined == [t |-> "undefined"]
JNull == [t |-> "null"]
JBool(b) == [t |-> "bool", b |-> b]
JNum(n) == [t |-> "num", n |-> n]
JStr(s) == [t |-> "str", s |-> s]
JArr(a) == [t |-> "arr", a |-> a]
JObj(o) == [t |-> "obj", o |-> o]

\* ToBoolean: undefined, null, false, 0 and "" are falsy
Truthy(v) ==
    CASE v.t = "undefined" -> FALSE
      [] v.t = "null" -> FALSE
      [] v.t = "bool" -> v.b
      [] v.t = "num" -> v.n # 0
      [] v.t = "str" -> v.s # <<>>
      [] OTHER -> TRUE

\* v[key] for a property name: the last member with that key of an object,
\* undefined on any other non-null value (no such own or inherited property).
Prop(v, key) ==
    IF v.t # "obj" THEN Undefined
    ELSE Let({i \in 1..Len(v.o) : v.o[i].k = key}, LAMBDA idx :
             IF idx = {} THEN Undefined
             ELSE v.o[CHOOSE i \in idx : \A j \in idx : j <= i].v)

\* Property access on null or undefined throws a TypeError.
PropThrows(v) == v.t \in {"null", "undefined"}

IsArray(v) == v.t = "arr"
TypeofString(v) == v.t = "str"

-----------------------------------------------------------------------------
(* Symbols and whitespace *)

QUOTE == "\""
\* a run of three backticks (a Markdown code fence)
FENCE == "FENCE"
Digits == {"0", "1"}
DigitVal(d) == IF d = "0" THEN 0 ELSE 1

\* The whitespace JSON.parse skips between tokens.
JsonWs == {" ", "\n"}
\* The whitespace String.prototype.trim and the regex class \s match:
\* a superset of JSON whitespace (here: the no-break space).
JsWs == JsonWs \cup {"nbsp"}

Min(S) == CHOOSE i \in S : \A j \in S : i <= j
Max(S) == CHOOSE i \in S : \A j \in S : j <= i

\* s without its longest prefix of symbols in set
DropWhile(s, set) ==
    Let({i \in 1..Len(s) : s[i] \notin set}, LAMBDA keep :
        IF keep = {} THEN <<>> ELSE SubSeq(s, Min(keep), Len(s)))

\* s without its longest suffix of symbols in set
DropEndWhile(s, set) ==
    Let({i \in 1..Len(s) : s[i] \notin set}, LAMBDA keep :
        IF keep = {} THEN <<>> ELSE SubSeq(s, 1, Max(keep)))

\* String.prototype.trim
Trim(s) == DropEndWhile(DropWhile(s, JsWs), JsWs)

-----------------------------------------------------------------------------
(* JSON.parse *)

Fail == [ok |-> FALSE]
Ok(v, rest) == [ok |-> TRUE, val |-> v, rest |-> rest]

\* Inside a string literal: a two-character escape is one symbol.
Unescape(c) ==
    CASE c = "\\\"" -> QUOTE
      [] c = "\\n" -> "\n"
      [] OTHER -> c

\* The characters of a string literal up to its closing quote; a raw control
\* character (newline) inside a string literal is a SyntaxError.
ParseChars(s) ==
    Let({i \in 1..Len(s) : s[i] = QUOTE}, LAMBDA quotes :
        IF quotes = {} THEN Fail
        ELSE Let(Min(quotes), LAMBDA close :
                 IF \E i \in 1..(close - 1) : s[i] = "\n" THEN Fail
                 ELSE Ok(JStr([i \in 1..(close - 1) |-> Unescape(s[i])]),
                         SubSeq(s, close + 1, Len(s)))))

ParseString(s) ==
    IF s # <<>> /\ Head(s) = QUOTE THEN ParseChars(Tail(s)) ELSE Fail

\* A run of digits; a leading zero followed by more digits is a SyntaxError.
RECURSIVE ParseDigits(_, _)
ParseDigits(s, acc) ==
    IF s # <<>> /\ Head(s) \in Digits
    THEN ParseDigits(Tail(s), 10 * acc + DigitVal(Head(s)))
    ELSE Ok(JNum(acc), s)

ParseNumber(s) ==
    IF Len(s) >= 2 /\ s[1] = "0" /\ s[2] \in Digits THEN Fail
    ELSE ParseDigits(s, 0)

RECURSIVE ParseValue(_)
RECURSIVE ParseElements(_, _)
RECURSIVE ParseMembers(_, _)

\* s starts at the first symbol of a value (whitespace already skipped).
ParseValue(s) ==
    IF s = <<>> THEN Fail
    ELSE CASE Head(s) = "null" -> Ok(JNull, Tail(s))
           [] Head(s) = "true" -> Ok(JBool(TRUE), Tail(s))
           [] Head(s) = "false" -> Ok(JBool(FALSE), Tail(s))
           [] Head(s) \in Digits -> ParseNumber(s)
           [] Head(s) = QUOTE -> ParseString(s)
           [] Head(s) = "[" ->
                Let(DropWhile(Tail(s), JsonWs), LAMBDA r :
                    IF r # <<>> /\ Head(r) = "]" THEN Ok(JArr(<<>>), Tail(r))
                    ELSE ParseElements(r, <<>>))
           [] Head(s) = "{" ->
                Let(DropWhile(Tail(s), JsonWs), LAMBDA r :
                    IF r # <<>> /\ Head(r) = "}" THEN Ok(JObj(<<>>), Tail(r))
                    ELSE ParseMembers(r, <<>>))
           [] OTHER -> Fail

\* value ("," value)* "]"
ParseElements(s, acc) ==
    Let(ParseValue(s), LAMBDA e :
        IF ~e.ok THEN Fail
        ELSE Let(DropWhile(e.rest, JsonWs), LAMBDA r :
                 IF r = <<>> THEN Fail
                 ELSE IF Head(r) = "]"
                      THEN Ok(JArr(Append(acc, e.val)), Tail(r))
                 ELSE IF Head(r) = ","
                      THEN Let(DropWhile(Tail(r), JsonWs), LAMBDA next :
                           Let(Append(acc, e.val), LAMBDA elems :
                               ParseElements(next, elems)))
                 ELSE Fail))

\* string ":" value ("," string ":" value)* "}"
ParseMembers(s, acc) ==
    Let(ParseString(s), LAMBDA k :
        IF ~k.ok THEN Fail
        ELSE Let(DropWhile(k.rest, JsonWs), LAMBDA c :
        IF c = <<>> \/ Head(c) # ":" THEN Fail
        ELSE Let(DropWhile(Tail(c), JsonWs), LAMBDA vs :
             Let(ParseValue(vs), LAMBDA e :
        IF ~e.ok THEN Fail
        ELSE Let(DropWhile(e.rest, JsonWs), LAMBDA r :
             Let(Append(acc, [k |-> k.val.s, v |-> e.val]), LAMBDA m :
        IF r = <<>> THEN Fail
        ELSE IF Head(r) = "}" THEN Ok(JObj(m), Tail(r))
        ELSE IF Head(r) = ","
             THEN Let(DropWhile(Tail(r), JsonWs), LAMBDA next :
                      ParseMembers(next, m))
        ELSE Fail))))))

\* JSON.parse(text): [ok |-> TRUE, val |-> v], or [ok |-> FALSE] when it throws
\* a SyntaxError.
JSONparse(text) ==
    Let(DropWhile(text, JsonWs), LAMBDA start :
    Let(ParseValue(start), LAMBDA r :
        IF r.ok /\ DropWhile(r.rest, JsonWs) = <<>>
        THEN [ok |-> TRUE, val |-> r.val]
        ELSE Fail))

-----------------------------------------------------------------------------
(* JSON.stringify *)

Escape(c) ==
    CASE c = QUOTE -> "\\\""
      [] c = "\n" -> "\\n"
      [] OTHER -> c

\* The decimal digits of a number (the model's numbers have digits 0 and 1).
RECURSIVE NumDigits(_)
NumDigits(n) ==
    IF n < 10 THEN <<IF n = 0 THEN "0" ELSE "1">>
    ELSE NumDigits(n \div 10) \o <<IF n % 10 = 0 THEN "0" ELSE "1">>

StringifyString(s) ==
    <<QUOTE>> \o [i \in 1..Len(s) |-> Escape(s[i])] \o <<QUOTE>>

RECURSIVE JSONstringify(_)
RECURSIVE StringifyElements(_)
RECURSIVE StringifyMembers(_, _)

JSONstringify(v) ==
    CASE v.t = "null" -> <<"null">>
      [] v.t = "bool" -> <<IF v.b THEN "true" ELSE "false">>
      [] v.t = "num" -> NumDigits(v.n)
      [] v.t = "str" -> StringifyString(v.s)
      [] v.t = "arr" -> <<"[">> \o StringifyElements(v.a) \o <<"]">>
      [] v.t = "obj" -> <<"{">> \o StringifyMembers(v.o, TRUE) \o <<"}">>

StringifyElements(a) ==
    IF a = <<>> THEN <<>>
    ELSE JSONstringify(Head(a))
         \o (IF Len(a) > 1 THEN <<",">> ELSE <<>>)
         \o StringifyElements(Tail(a))

\* A member whose value is undefined is left out.
StringifyMembers(o, first) ==
    IF o = <<>> THEN <<>>
    ELSE IF Head(o).v.t = "undefined" THEN StringifyMembers(Tail(o), first)
    ELSE (IF first THEN <<>> ELSE <<",">>)
         \o StringifyString(Head(o).k) \o <<":">> \o JSONstringify(Head(o).v)
         \o StringifyMembers(Tail(o), FALSE)

-----------------------------------------------------------------------------
(* ResponseNormalizer: parseTranslationResponse / parseExplanationResponse *)

TRANSLATION == <<"translation">>
SUMMARY == <<"summary">>
POINTS == <<"points">>

\* text.replace(/^FENCE json\s*/, ''): first match only, anchored at the start
StripLeadingJsonFence(s) ==
    IF Len(s) >= 2 /\ s[1] = FENCE /\ s[2] = "json"
    THEN DropWhile(SubSeq(s, 3, Len(s)), JsWs) ELSE s

\* text.replace(/^FENCE\s*/, '')
StripLeadingFence(s) ==
    IF s # <<>> /\ s[1] = FENCE THEN DropWhile(Tail(s), JsWs) ELSE s

\* A cleaner that leaves the trailing fence in place.
KeepTrailingFence(s) == s

\* text.replace(/\s*FENCE$/, '')
StripTrailingFence(s) ==
    IF s # <<>> /\ s[Len(s)] = FENCE
    THEN DropEndWhile(SubSeq(s, 1, Len(s) - 1), JsWs) ELSE s

\* const cleaned = text.trim().replace(..).replace(..).replace(..).trim()
Cleaned(text) ==
    Let(Trim(text), LAMBDA trimmed :
    Let(StripLeadingJsonFence(trimmed), LAMBDA noJsonFence :
    Let(StripLeadingFence(noJsonFence), LAMBDA noLeadingFence :
    Let(StripTrailingFence(noLeadingFence), LAMBDA noFence :
    Trim(noFence)))))

\* try { const parsed = JSON.parse(s);
\*       if (parsed[field] !== undefined && Array.isArray(parsed.points))
\*         return parsed } catch {}
\* hit: the stage returned parsed, as it is.  A SyntaxError of JSON.parse and
\* the TypeError of a property read on null are both caught.
DirectParse(s, field) ==
    Let(JSONparse(s), LAMBDA p :
        IF p.ok /\ ~PropThrows(p.val)
           /\ Prop(p.val, field) # Undefined /\ IsArray(Prop(p.val, POINTS))
        THEN [hit |-> TRUE, val |-> p.val]
        ELSE [hit |-> FALSE])

\* A filter that lets every element through.
KeepEveryElement(a) == a

\* obj.points.filter((p) => typeof p === 'string')
FilterStrings(a) == SelectSeq(a, TypeofString)

\* try { const value = JSON.parse(cleaned);
\*       const obj = Array.isArray(value) ? value[0] : value;
\*       if (obj) { ...; return { field, points } } } catch {}
FlexibleParse(cleaned, field) ==
    Let(JSONparse(cleaned), LAMBDA p :
        IF ~p.ok THEN [hit |-> FALSE]
        ELSE Let(p.val, LAMBDA value :
             Let(IF IsArray(value)
                 THEN (IF value.a = <<>> THEN Undefined ELSE value.a[1])
                 ELSE value, LAMBDA obj :
        IF ~Truthy(obj) THEN [hit |-> FALSE]
        ELSE Let(Prop(obj, field), LAMBDA objPrimary :
             Let(Prop(obj, POINTS), LAMBDA objPoints :
             Let(IF TypeofString(objPrimary) THEN objPrimary ELSE JStr(<<>>),
                 LAMBDA primary :
             Let(IF IsArray(objPoints) THEN JArr(FilterStrings(objPoints.a))
                 ELSE JArr(<<>>), LAMBDA points :
                 [hit |-> TRUE,
                  val |-> JObj(<<[k |-> field, v |-> primary],
                                 [k |-> POINTS, v |-> points]>>)])))))))

\* A fallback that trims the raw text.
FallbackTrimmed(text, field) ==
    JObj(<<[k |-> field, v |-> JStr(Trim(text))],
           [k |-> POINTS, v |-> JArr(<<>>)]>>)

\* return { field: text, points: [] }
Fallback(text, field) ==
    JObj(<<[k |-> field, v |-> JStr(text)], [k |-> POINTS, v |-> JArr(<<>>)]>>)

\* The four stages in order; the first that returns wins.
ParseResponse(text, field) ==
    Let(DirectParse(text, field), LAMBDA s1 :
        IF s1.hit THEN s1.val
        ELSE Let(Cleaned(text), LAMBDA cleaned :
             Let(DirectParse(cleaned, field), LAMBDA s2 :
                 IF s2.hit THEN s2.val
                 ELSE Let(FlexibleParse(cleaned, field), LAMBDA s3 :
                          IF s3.hit THEN s3.val
                          ELSE Fallback(text, field)))))

parseTranslationResponse(text) == ParseResponse(text, TRANSLATION)
parseExplanationResponse(text) == ParseResponse(text, SUMMARY)

\* Which stage returns, for the claims that speak of one stage.
StageOf(text, field) ==
    IF DirectParse(text, field).hit THEN "direct"
    ELSE IF DirectParse(Cleaned(text), field).hit THEN "fenced"
    ELSE IF FlexibleParse(Cleaned(text), field).hit THEN "flexible"
    ELSE "fallback"

-----------------------------------------------------------------------------
(* The model texts the parsers are run on *)

RECURSIVE SeqsUpTo(_, _)
SeqsUpTo(S, n) ==
    IF n = 0 THEN {<<>>}
    ELSE LET shorter == SeqsUpTo(S, n - 1)
         IN shorter \cup {Append(q, x) : q \in shorter, x \in S}

\* What a model puts in a points array: strings, and the nested object the
\* system instruction forbids.
PointElems ==
    {JStr(<<"p1">>), JStr(<<"p2">>), JObj(<<[k |-> <<"bad">>, v |-> JNum(1)]>>)}

\* The points member: absent, an array, or not an array at all.
PointsVals ==
    {Undefined, JNull, JStr(<<"p1">>)}
        \cup {JArr(a) : a \in SeqsUpTo(PointElems, MaxPoints)}

\* The primary member: absent, a string, or some other JSON value.
PrimaryVals == {Undefined, JStr(<<"cat">>), JStr(<<>>), JNum(1), JNull}

Member(key, v) == IF v = Undefined THEN <<>> ELSE <<[k |-> key, v |-> v]>>

ResponseObjects(field) ==
    {JObj(Member(field, pr) \o Member(POINTS, pt) \o Member(<<"other">>, ot)) :
        pr \in PrimaryVals, pt \in PointsVals, ot \in {Undefined, JNum(1)}}

ResponseValues(field) ==
    ResponseObjects(field)
        \cup {JArr(<<o>>) : o \in ResponseObjects(field)}
        \cup {JNull, JBool(FALSE), JBool(TRUE), JNum(0), JNum(1), JStr(<<>>),
              JStr(<<"cat">>), JArr(<<>>), JArr(<<JNull>>)}

\* How a model wraps its JSON: bare, padded, fenced, behind prose.
Wrappings(j) ==
    {j,
     <<" ">> \o j \o <<"\n">>,
     <<"nbsp">> \o j,
     <<FENCE, "json", "\n">> \o j \o <<"\n", FENCE>>,
     <<FENCE, "\n">> \o j \o <<"\n", FENCE>>,
     <<"\n", FENCE, "json", "\n">> \o j \o <<"\n", FENCE, " ">>,
     <<FENCE, "json">> \o j,
     <<"Sure", ":", " ">> \o j}

\* Texts that are no JSON at all, or JSON cut short.
GarbageTexts ==
    {<<>>, <<" ">>, <<"not", " ", "json">>, <<"{">>, <<FENCE>>,
     <<FENCE, "json", "\n", FENCE>>,
     <<"{", QUOTE, "points", QUOTE, ":", "[">>, <<"0", "1">>,
     <<QUOTE, "p1", "\n", QUOTE>>,
     <<" ", FENCE, "\n", "not", " ", "json", "\n", FENCE, "\n">>}

RawTexts(field) ==
    GarbageTexts
        \cup UNION {Wrappings(JSONstringify(v)) : v \in ResponseValues(field)}

-----------------------------------------------------------------------------
(* The parsers applied to one model text *)

NoValue == Undefined

NormIdle ==
    /\ normOp = "none"
    /\ normText = <<>>
    /\ normResult = NoValue

NormDrawn ==
    /\ normOp = "none"
    /\ normText \in RawTexts(TRANSLATION) \cup RawTexts(SUMMARY)
    /\ normResult = NoValue

ParseTranslation ==
    /\ normOp = "none"
    /\ normOp' = "translate"
    /\ normResult' = parseTranslationResponse(normText)
    /\ UNCHANGED normText

ParseExplanation ==
    /\ normOp = "none"
    /\ normOp' = "explain"
    /\ normResult' = parseExplanationResponse(normText)
    /\ UNCHANGED normText

-----------------------------------------------------------------------------
(* useContextMenu *)

Null == [t |-> "null"]

\* window.getSelection(): null, or a Selection.  A collapsed selection has
\* no text.  where: the place of range.commonAncestorContainer relative to
\* the element with id "pdf-viewer-container".
SelectionTexts == {<<>>, <<" ">>, <<"nbsp", "\n">>, <<"a">>, <<" ", "a", " ">>}
Places == {"viewer", "inside", "outside"}

Selections ==
    {Null}
        \cup {[t |-> "sel", isCollapsed |-> TRUE, text |-> <<>>, where |-> w] :
                w \in Places}
        \cup {[t |-> "sel", isCollapsed |-> FALSE, text |-> x, where |-> w] :
                x \in SelectionTexts, w \in Places}

\* The document: whether getElementById("pdf-viewer-container") finds an
\* element; without one no node is inside it.
Documents ==
    {[viewer |-> TRUE, sel |-> sl] : sl \in Selections}
        \cup {[viewer |-> FALSE, sel |-> sl] :
                sl \in {x \in Selections : x = Null \/ x.where = "outside"}}

\* Node.contains is inclusive: an element contains itself.
Contains(where) == where \in {"viewer", "inside"}

MouseEvents == [clientX : 0..MaxCoord, clientY : 0..MaxCoord]

MenuIdle ==
    /\ contextMenuPosition = Null
    /\ menuCall = [op |-> "none"]
    /\ prevPosition = Null
    /\ defaultPrevented = FALSE
    /\ clipboard = <<>>
    /\ triggered = {}

\* The guards without the test that the viewer contains the selection.
ShowsMenuAnywhere(doc) ==
    /\ ~(doc.sel = Null \/ doc.sel.isCollapsed)
    /\ Trim(doc.sel.text) # <<>>

\* The guards of handleContextMenu, in the order of its early returns.
ShowsMenu(doc) ==
    /\ ~(doc.sel = Null \/ doc.sel.isCollapsed)
    /\ Trim(doc.sel.text) # <<>>
    /\ ~(~doc.viewer \/ ~Contains(doc.sel.where))

handleContextMenu(doc, e) ==
    /\ menuCall' = [op |-> "contextmenu", doc |-> doc, e |-> e]
    /\ prevPosition' = contextMenuPosition
    /\ IF ShowsMenu(doc)
       THEN /\ defaultPrevented' = TRUE
            /\ contextMenuPosition' = [x |-> e.clientX, y |-> e.clientY]
       ELSE /\ defaultPrevented' = FALSE
            /\ UNCHANGED contextMenuPosition
    /\ UNCHANGED <<clipboard, triggered>>

\* Writes the live selection's text, untrimmed, to the clipboard.
handleContextMenuCopy(doc) ==
    /\ menuCall' = [op |-> "copy", doc |-> doc]
    /\ prevPosition' = contextMenuPosition
    /\ defaultPrevented' = FALSE
    /\ clipboard' = IF doc.sel # Null THEN doc.sel.text ELSE clipboard
    /\ UNCHANGED <<contextMenuPosition, triggered>>

handleContextMenuTranslate ==
    /\ menuCall' = [op |-> "translate"]
    /\ prevPosition' = contextMenuPosition
    /\ defaultPrevented' = FALSE
    /\ triggered' = triggered \cup {"triggerTranslation(false)"}
    /\ UNCHANGED <<contextMenuPosition, clipboard>>

handleContextMenuExplain ==
    /\ menuCall' = [op |-> "explain"]
    /\ prevPosition' = contextMenuPosition
    /\ defaultPrevented' = FALSE
    /\ triggered' = triggered \cup {"triggerExplanation()"}
    /\ UNCHANGED <<contextMenuPosition, clipboard>>

\* const closeContextMenu = () => {}
closeContextMenu ==
    /\ menuCall' = [op |-> "close"]
    /\ prevPosition' = contextMenuPosition
    /\ defaultPrevented' = FALSE
    /\ UNCHANGED <<contextMenuPosition, clipboard, triggered>>

-----------------------------------------------------------------------------
(* Settings store: getGeminiSettings / saveGeminiSettings *)

DEFAULT_GEMINI_MODEL == <<"gemini-2.0-flash">>
DEFAULT_GEMINI_EXPLANATION_MODEL == <<"gemini-2.0-flash">>

GeminiSettings(apiKey, model, explanationModel) ==
    JObj(<<[k |-> <<"apiKey">>, v |-> JStr(apiKey)],
           [k |-> <<"model">>, v |-> JStr(model)],
           [k |-> <<"explanationModel">>, v |-> JStr(explanationModel)]>>)

DEFAULT_GEMINI_SETTINGS ==
    GeminiSettings(<<>>, DEFAULT_GEMINI_MODEL, DEFAULT_GEMINI_EXPLANATION_MODEL)

NoItem == [t |-> "none"]
Item(text) == [t |-> "item", text |-> text]

\* a || b
OrElse(a, b) == IF Truthy(a) THEN a ELSE b

\* The value getGeminiSettings returns with `stored` under the key.  A
\* SyntaxError of JSON.parse and the TypeError of reading a property of null
\* are caught and logged, and the defaults returned.
getGeminiSettings(window, stored) ==
    IF ~window THEN DEFAULT_GEMINI_SETTINGS
    ELSE IF stored = NoItem \/ stored.text = <<>> THEN DEFAULT_GEMINI_SETTINGS
    ELSE Let(JSONparse(stored.text), LAMBDA p :
            IF ~p.ok \/ PropThrows(p.val) THEN DEFAULT_GEMINI_SETTINGS
            ELSE JObj(<<[k |-> <<"apiKey">>, v |-> JStr(<<>>)],
                        [k |-> <<"model">>,
                         v |-> OrElse(Prop(p.val, <<"model">>),
                                      JStr(DEFAULT_GEMINI_MODEL))],
                        [k |-> <<"explanationModel">>,
                         v |-> OrElse(Prop(p.val, <<"explanationModel">>),
                                      JStr(DEFAULT_GEMINI_EXPLANATION_MODEL))]>>))

\* The item under the key after saveGeminiSettings(settings); setItem may
\* throw (quota), which is caught and logged.
saveGeminiSettings(window, stored, settings, setItemThrows) ==
    IF ~window THEN stored
    ELSE IF setItemThrows THEN stored
    ELSE Item(JSONstringify(settings))

\* What callers pass to saveGeminiSettings: a GeminiSettings value.
ApiKeys == {<<>>, <<"AIza-secret">>}
ModelIds == {<<>>, <<"gemini-2.0-flash">>, <<"gemini-2.5-pro">>}
SettingsValues ==
    {GeminiSettings(a, m, e) : a \in ApiKeys, m \in ModelIds, e \in ModelIds}

\* What may lie under the key before the first call: nothing, or text that
\* some other code or an older version left there.
StoredBefore ==
    {NoItem, Item(<<"not", " ", "json">>), Item(<<"null">>),
     Item(JSONstringify(JObj(<<[k |-> <<"model">>,
                                v |-> JStr(<<"gemini-2.5-pro">>)]>>)))}

SettingsIdle ==
    /\ hasWindow \in BOOLEAN
    /\ localStorage \in IF hasWindow THEN StoredBefore ELSE {NoItem}
    /\ settingsCall = [op |-> "none"]

GetGeminiSettings ==
    /\ settingsCall' = [op |-> "get",
                        result |-> getGeminiSettings(hasWindow, localStorage)]
    /\ UNCHANGED <<hasWindow, localStorage>>

SaveGeminiSettings(settings, setItemThrows) ==
    /\ localStorage' =
          saveGeminiSettings(hasWindow, localStorage, settings, setItemThrows)
    /\ settingsCall' = [op |-> "save", settings |-> settings,
                        threw |-> setItemThrows]
    /\ UNCHANGED hasWindow

-----------------------------------------------------------------------------
(* BackendHandler: POST of the translate and explain routes *)

\* String(v), as String.prototype.replace and template literals coerce
RECURSIVE JsString(_)
RECURSIVE JoinElements(_)
JsString(v) ==
    CASE v.t = "str" -> v.s
      [] v.t = "num" -> NumDigits(v.n)
      [] v.t = "bool" -> <<IF v.b THEN "true" ELSE "false">>
      [] v.t = "null" -> <<"null">>
      [] v.t = "undefined" -> <<"undefined">>
      [] v.t = "arr" -> JoinElements(v.a)
      [] v.t = "obj" -> <<"[object Object]">>

\* Array.prototype.join(","): null and undefined elements give ""
JoinElements(a) ==
    IF a = <<>> THEN <<>>
    ELSE (IF Head(a).t \in {"null", "undefined"} THEN <<>> ELSE JsString(Head(a)))
         \o (IF Len(a) > 1 THEN <<",">> ELSE <<>>)
         \o JoinElements(Tail(a))

\* The replacement patterns String.prototype.replace expands in a
\* replacement string: "$&" is the matched text, "$$" a dollar sign.
RECURSIVE ExpandReplacement(_, _)
ExpandReplacement(repl, matched) ==
    IF repl = <<>> THEN <<>>
    ELSE (CASE Head(repl) = "$&" -> <<matched>>
            [] Head(repl) = "$$" -> <<"$">>
            [] OTHER -> <<Head(repl)>>)
         \o ExpandReplacement(Tail(repl), matched)

\* s.replace(pattern, replacement) with a string pattern: the first
\* occurrence only (a placeholder is one symbol).
ReplaceFirst(s, pattern, repl) ==
    Let({i \in 1..Len(s) : s[i] = pattern}, LAMBDA idx :
        IF idx = {} THEN s
        ELSE SubSeq(s, 1, Min(idx) - 1) \o ExpandReplacement(repl, pattern)
                 \o SubSeq(s, Min(idx) + 1, Len(s)))

TRANSLATION_PROMPT ==
    <<"SELECTED TEXT (translate this):", "\n", "{text}", "\n", "\n",
      "Context before:", "\n", "{context_before}", "\n", "\n",
      "Context after:", "\n", "{context_after}">>

EXPLANATION_PROMPT ==
    <<"Explain the following text. [...]", "\n", "\n",
      "## Context before (for understanding only):", "\n",
      "{context_before}", "\n", "\n",
      "## Text to explain:", "\n", "{text}", "\n", "\n",
      "## Context after (for understanding only):", "\n",
      "{context_after}", "\n", "\n",
      "Use the context to understand the meaning, but explain only the selected text.">>

PromptTemplate(op) ==
    IF op = "translate" THEN TRANSLATION_PROMPT ELSE EXPLANATION_PROMPT

\* TEMPLATE.replace('{text}', text)
\*         .replace('{context_before}', contextBefore || '')
\*         .replace('{context_after}', contextAfter || '')
BuildPrompt(op, text, contextBefore, contextAfter) ==
    ReplaceFirst(
        ReplaceFirst(
            ReplaceFirst(PromptTemplate(op), "{text}", JsString(text)),
            "{context_before}", JsString(OrElse(contextBefore, JStr(<<>>)))),
        "{context_after}", JsString(OrElse(contextAfter, JStr(<<>>))))

MSG_NO_KEY == <<"GEMINI_API_KEY is not configured. Please set it in .env.local">>
MSG_TEXT_REQUIRED == <<"Text required">>
MSG_RATE_LIMIT == <<"Rate limit exceeded. Please wait a moment and try again.">>
MSG_INVALID_KEY ==
    <<"Invalid API key. Please check your Gemini API key in Settings.">>
MSG_NO_RESPONSE == <<"No response from API">>
\* messages of errors the runtime throws
MSG_SYNTAX_ERROR == <<"SyntaxError: Unexpected token">>
MSG_TYPE_ERROR == <<"TypeError">>
MSG_FETCH_FAILED == <<"fetch failed">>

StatusText(status) ==
    CASE status = 400 -> "400" [] status = 401 -> "401" [] status = 403 -> "403"
      [] status = 404 -> "404" [] status = 429 -> "429" [] status = 500 -> "500"
      [] status = 503 -> "503" [] OTHER -> "status"

\* `API error (${status}): ${errorText}`
ApiErrorMessage(status, errorText) ==
    <<"API error (", StatusText(status), "): ">> \o errorText

\* A table that has no row for status 403.
UpstreamErrorMessageWithout403(status, errorText) ==
    IF status = 429 THEN MSG_RATE_LIMIT
    ELSE IF status = 401 THEN MSG_INVALID_KEY
    ELSE ApiErrorMessage(status, errorText)

\* The message for a non-success upstream status.
UpstreamErrorMessage(status, errorText) ==
    IF status = 429 THEN MSG_RATE_LIMIT
    ELSE IF status = 401 \/ status = 403 THEN MSG_INVALID_KEY
    ELSE ApiErrorMessage(status, errorText)

\* Response.ok
IsOk(status) == status \in 200..299

ErrorBody(message) == JObj(<<[k |-> <<"error">>, v |-> message]>>)

\* NextResponse.json(value, { status }): what the handler did on the way is
\* recorded beside it: the calls to the upstream endpoint, the upstream
\* request of the call, and the calls to the response parser.
Respond(status, value, upstreamCalls, upstreamRequest, parserCalls) ==
    [status |-> status, body |-> JSONstringify(value),
     upstreamCalls |-> upstreamCalls, upstreamRequest |-> upstreamRequest,
     parserCalls |-> parserCalls]

NoRequest == [t |-> "none"]

\* data.candidates?.[0]?.content?.parts?.[0]?.text
First(v) == IF IsArray(v) /\ v.a # <<>> THEN v.a[1] ELSE Undefined
ResultText(data) ==
    LET candidate == First(Prop(data, <<"candidates">>))
        parts == Prop(Prop(candidate, <<"content">>), <<"parts">>)
    IN Prop(First(parts), <<"text">>)

\* Each route with the other route's parser.
ParserOfOtherRoute(op, text) ==
    IF op = "translate" THEN parseExplanationResponse(text)
    ELSE parseTranslationResponse(text)

\* const parsed = parseTranslationResponse(resultText)   (translate route)
\* const parsed = parseExplanationResponse(resultText)   (explain route)
ParserOf(op, text) ==
    IF op = "translate" THEN parseTranslationResponse(text)
    ELSE parseExplanationResponse(text)

\* After a successful upstream response with body text `bodyText`.
OnUpstreamSuccess(op, bodyText, req) ==
    Let(JSONparse(bodyText), LAMBDA d :
        IF ~d.ok THEN Respond(500, ErrorBody(JStr(MSG_SYNTAX_ERROR)), 1, req, 0)
        ELSE IF PropThrows(d.val)
             THEN Respond(500, ErrorBody(JStr(MSG_TYPE_ERROR)), 1, req, 0)
        ELSE Let(Prop(d.val, <<"error">>), LAMBDA dataError :
        IF Truthy(dataError)
        THEN Respond(500, ErrorBody(Prop(dataError, <<"message">>)), 1, req, 0)
        ELSE Let(ResultText(d.val), LAMBDA resultText :
        IF ~Truthy(resultText)
        THEN Respond(500, ErrorBody(JStr(MSG_NO_RESPONSE)), 1, req, 0)
        ELSE IF ~TypeofString(resultText)
             \* the parser calls text.trim() on a value that has none
             THEN Respond(500, ErrorBody(JStr(MSG_TYPE_ERROR)), 1, req, 1)
        ELSE Let(ParserOf(op, resultText.s), LAMBDA parsed :
                 Respond(200, parsed, 1, req, 1)))))

\* The request to the generation endpoint.
UpstreamRequest(op, body, apiKey) ==
    [t |-> "generateContent",
     model |-> JsString(OrElse(Prop(body, <<"model">>),
                               JStr(<<"gemini-2.0-flash">>))),
     key |-> apiKey,
     prompt |-> BuildPrompt(op, Prop(body, <<"text">>),
                            Prop(body, <<"contextBefore">>),
                            Prop(body, <<"contextAfter">>)),
     systemInstruction |-> op,
     responseMimeType |-> "application/json"]

\* POST(request) with the request body `bodyText`, the environment's
\* GEMINI_API_KEY `apiKey`, and `upstream` what the fetch of the generation
\* endpoint does if it is reached: it throws, or resolves to a response.
\* Whatever is thrown inside is caught and answered with status 500.
POST(op, bodyText, apiKey, upstream) ==
    Let(JSONparse(bodyText), LAMBDA b :
        IF ~b.ok
        THEN Respond(500, ErrorBody(JStr(MSG_SYNTAX_ERROR)), 0, NoRequest, 0)
        ELSE IF PropThrows(b.val)
             \* destructuring null
             THEN Respond(500, ErrorBody(JStr(MSG_TYPE_ERROR)), 0, NoRequest, 0)
        ELSE IF apiKey = <<>>
             THEN Respond(500, ErrorBody(JStr(MSG_NO_KEY)), 0, NoRequest, 0)
        ELSE IF ~Truthy(Prop(b.val, <<"text">>))
             THEN Respond(400, ErrorBody(JStr(MSG_TEXT_REQUIRED)), 0,
                          NoRequest, 0)
        ELSE Let(UpstreamRequest(op, b.val, apiKey), LAMBDA req :
             IF upstream.kind = "throws"
             THEN Respond(500, ErrorBody(JStr(MSG_FETCH_FAILED)), 1, req, 0)
             ELSE IF ~IsOk(upstream.status)
             THEN Respond(upstream.status,
                          ErrorBody(JStr(UpstreamErrorMessage(upstream.status,
                                                              upstream.text))),
                          1, req, 0)
             ELSE OnUpstreamSuccess(op, upstream.text, req)))

-----------------------------------------------------------------------------
(* AnnotationRequestDispatcher: translateWithGemini / explainDirectly, and   *)
(* the network between it, the routes and the generation endpoint           *)

NoMessage == [t |-> "none"]

BackendIdle ==
    /\ phase = "idle"
    /\ call = [kind |-> "none"]
    /\ networkRequests = 0
    /\ request = NoMessage
    /\ handled = NoMessage
    /\ response = NoMessage
    /\ clientResult = [kind |-> "none"]

\* The body of the dispatcher's request:
\* JSON.stringify({ text, contextBefore, contextAfter,
\*                  model: modelOverride || settings.<model of the op> })
DispatchBody(op, text, contextBefore, contextAfter, modelOverride, settings) ==
    JSONstringify(JObj(<<
        [k |-> <<"text">>, v |-> JStr(text)],
        [k |-> <<"contextBefore">>, v |-> JStr(contextBefore)],
        [k |-> <<"contextAfter">>, v |-> JStr(contextAfter)],
        [k |-> <<"model">>,
         v |-> OrElse(modelOverride,
                      Prop(settings, IF op = "translate" THEN <<"model">>
                                     ELSE <<"explanationModel">>))]>>))

\* Up to the await of fetch: the settings are read and one request is sent,
\* whatever the text is.
Dispatch(op, text, contextBefore, contextAfter, modelOverride) ==
    /\ phase = "idle"
    /\ phase' = "sent"
    /\ call' = [kind |-> "dispatch", op |-> op, text |-> text,
                contextBefore |-> contextBefore, contextAfter |-> contextAfter,
                modelOverride |-> modelOverride]
    /\ networkRequests' = networkRequests + 1
    /\ request' = [t |-> "POST", op |-> op,
                   body |-> DispatchBody(op, text, contextBefore, contextAfter,
                                modelOverride,
                                getGeminiSettings(hasWindow, localStorage))]
    /\ UNCHANGED <<GEMINI_API_KEY, handled, response, clientResult>>

translateWithGemini(text, contextBefore, contextAfter, modelOverride) ==
    Dispatch("translate", text, contextBefore, contextAfter, modelOverride)

explainDirectly(text, contextBefore, contextAfter, modelOverride) ==
    Dispatch("explain", text, contextBefore, contextAfter, modelOverride)

\* A request some other client sends to a route: any body.
DirectRequest(op, bodyText) ==
    /\ phase = "idle"
    /\ phase' = "sent"
    /\ call' = [kind |-> "direct", op |-> op]
    /\ request' = [t |-> "POST", op |-> op, body |-> bodyText]
    /\ UNCHANGED <<GEMINI_API_KEY, networkRequests, handled, response, clientResult>>

\* The route handler runs on the request; `upstream` is what the generation
\* endpoint does if the handler calls it.
RouteHandles(upstream) ==
    /\ phase = "sent"
    /\ phase' = "responded"
    /\ \E r \in {POST(request.op, request.body, GEMINI_API_KEY, upstream)} :
          /\ handled' = [t |-> "handled", op |-> request.op,
                         body |-> request.body, upstream |-> upstream,
                         result |-> r]
          /\ response' = [t |-> "response", from |-> "route",
                          status |-> r.status, body |-> r.body]
    /\ UNCHANGED <<GEMINI_API_KEY, call, networkRequests, request, clientResult>>

\* The request does not reach the route: the connection fails, or a proxy in
\* front of the application answers in its place.
NetworkAnswers(answer) ==
    /\ phase = "sent"
    /\ call.kind = "dispatch"
    /\ phase' = "responded"
    /\ response' = IF answer.kind = "throws"
                   THEN [t |-> "failed"]
                   ELSE [t |-> "response", from |-> "proxy",
                         status |-> answer.status, body |-> answer.text]
    /\ UNCHANGED <<GEMINI_API_KEY, call, networkRequests, request, handled,
                   clientResult>>

Thrown(message) == [kind |-> "error", message |-> message]
Returned(value) == [kind |-> "value", value |-> value]

FailedMessage(op) ==
    IF op = "translate" THEN <<"Translation failed">>
    ELSE <<"Explanation failed">>

\* From the await of fetch to the end of the dispatcher:
\* if (!response.ok) { const error = await response.json();
\*                     throw new Error(error.error || '... failed') }
\* return response.json()
Settle(op, resp) ==
    IF resp.t = "failed" THEN Thrown(MSG_FETCH_FAILED)
    ELSE Let(JSONparse(resp.body), LAMBDA p :
            IF ~p.ok THEN Thrown(MSG_SYNTAX_ERROR)
            ELSE IF IsOk(resp.status) THEN Returned(p.val)
            ELSE IF PropThrows(p.val) THEN Thrown(MSG_TYPE_ERROR)
            ELSE Thrown(JsString(OrElse(Prop(p.val, <<"error">>),
                                        JStr(FailedMessage(op))))))

DispatcherSettles ==
    /\ phase = "responded"
    /\ call.kind = "dispatch"
    /\ phase' = "done"
    /\ clientResult' = Settle(call.op, response)
    /\ UNCHANGED <<GEMINI_API_KEY, call, networkRequests, request, handled, response>>

\* Inputs of the model
Operations == {"translate", "explain"}
DispatchTexts == {<<>>, <<"hello">>, <<"{context_after}">>}
ContextsBefore == {<<>>, <<"before", " ">>}
ContextsAfter == {<<>>, <<" ", "after">>}
ModelOverrides == {Undefined, JStr(<<"gemini-2.5-pro">>)}

RequestBodies ==
    {<<"not", " ", "json">>, <<"null">>, <<"1">>, <<"{", "}">>,
     JSONstringify(JObj(<<[k |-> <<"text">>, v |-> JStr(<<>>)]>>)),
     JSONstringify(JObj(<<[k |-> <<"text">>, v |-> JNull]>>)),
     JSONstringify(JObj(<<[k |-> <<"contextBefore">>, v |-> JStr(<<"b">>)]>>)),
     JSONstringify(JObj(<<[k |-> <<"text">>, v |-> JStr(<<"hello">>)]>>)),
     JSONstringify(JObj(<<[k |-> <<"text">>, v |-> JNum(1)],
                          [k |-> <<"contextBefore">>, v |-> JNum(0)],
                          [k |-> <<"model">>, v |-> JStr(<<"m">>)]>>)),
     JSONstringify(JObj(<<[k |-> <<"text">>, v |-> JStr(<<"$&">>)],
                          [k |-> <<"contextAfter">>, v |-> JStr(<<"$$">>)]>>))}

FailureStatuses == {400, 401, 403, 404, 429, 500, 503}
FailureTexts ==
    {<<>>, <<"quota", " ", "exceeded">>,
     JSONstringify(ErrorBody(JStr(<<"API key not valid">>)))}

\* The texts a model answers with (the text of the first part).
ModelTexts(op) ==
    LET field == IF op = "translate" THEN TRANSLATION ELSE SUMMARY
        good == JObj(<<[k |-> field, v |-> JStr(<<"cat">>)],
                       [k |-> POINTS,
                        v |-> JArr(<<JStr(<<"p1">>), JStr(<<"p2">>)>>)]>>)
        nested == JObj(<<[k |-> field, v |-> JNum(1)],
                         [k |-> POINTS,
                          v |-> JArr(<<JStr(<<"p1">>),
                                   JObj(<<[k |-> <<"bad">>, v |-> JNum(1)]>>)>>)]>>)
        noPoints == JObj(<<[k |-> field, v |-> JStr(<<"cat">>)]>>)
    IN {JSONstringify(good),
        <<FENCE, "json", "\n">> \o JSONstringify(good) \o <<"\n", FENCE>>,
        JSONstringify(nested),
        JSONstringify(JArr(<<nested>>)),
        JSONstringify(noPoints),
        <<"null">>,
        <<"not", " ", "json">>,
        <<"{", QUOTE, "points", QUOTE, ":", "[">>}

Candidates(textValue) ==
    JArr(<<JObj(<<[k |-> <<"content">>,
                   v |-> JObj(<<[k |-> <<"parts">>,
                                 v |-> JArr(<<JObj(<<[k |-> <<"text">>,
                                                      v |-> textValue]>>)>>)]>>)]>>)>>)

UpstreamError == JObj(<<[k |-> <<"message">>, v |-> JStr(<<"model overloaded">>)]>>)

\* The bodies of a successful response of the generation endpoint.
SuccessBodies(op) ==
    {<<"<html>">>, <<"null">>, <<"{", "}">>,
     JSONstringify(JObj(<<[k |-> <<"candidates">>, v |-> JArr(<<>>)]>>)),
     JSONstringify(JObj(<<[k |-> <<"candidates">>,
                           v |-> JArr(<<JObj(<<>>)>>)]>>)),
     JSONstringify(JObj(<<[k |-> <<"error">>, v |-> UpstreamError]>>)),
     JSONstringify(JObj(<<[k |-> <<"error">>, v |-> JStr(<<"x">>)]>>)),
     JSONstringify(JObj(<<[k |-> <<"error">>, v |-> UpstreamError],
                          [k |-> <<"candidates">>,
                           v |-> Candidates(JStr(<<"{", "}">>))]>>)),
     JSONstringify(JObj(<<[k |-> <<"candidates">>,
                           v |-> Candidates(JStr(<<>>))]>>)),
     JSONstringify(JObj(<<[k |-> <<"candidates">>,
                           v |-> Candidates(JNum(1))]>>))}
        \cup {JSONstringify(JObj(<<[k |-> <<"candidates">>,
                                    v |-> Candidates(JStr(x))]>>)) :
                x \in ModelTexts(op)}

UpstreamOutcomes(op) ==
    {[kind |-> "throws"]}
        \cup {[kind |-> "response", status |-> st, text |-> x] :
                st \in FailureStatuses, x \in FailureTexts}
        \cup {[kind |-> "response", status |-> 200, text |-> x] :
                x \in SuccessBodies(op)}

\* What the network does in place of the route.
NetworkOutcomes ==
    {[kind |-> "throws"],
     [kind |-> "response", status |-> 429,
      text |-> <<"<html>Too Many Requests</html>">>],
     [kind |-> "response", status |-> 429, text |-> <<"{", "}">>],
     [kind |-> "response", status |-> 429,
      text |-> JSONstringify(ErrorBody(JStr(<<"Too many requests from this IP">>)))],
     [kind |-> "response", status |-> 502,
      text |-> JSONstringify(ErrorBody(JStr(<<"Bad gateway">>)))]}

ServerKeys == {<<>>, <<"server-key">>}

-----------------------------------------------------------------------------
(* Specifications *)

vars == <<normVars, menuVars, settingsVars, backendVars>>

BackendFixed == BackendIdle /\ GEMINI_API_KEY = <<>>

SettingsFixed ==
    /\ hasWindow = TRUE
    /\ localStorage = NoItem
    /\ settingsCall = [op |-> "none"]

InitNorm == NormDrawn /\ MenuIdle /\ SettingsFixed /\ BackendFixed

NextNorm ==
    \/ ParseTranslation /\ UNCHANGED <<menuVars, settingsVars, backendVars>>
    \/ ParseExplanation /\ UNCHANGED <<menuVars, settingsVars, backendVars>>

SpecNorm == InitNorm /\ [][NextNorm]_vars

InitMenu == NormIdle /\ MenuIdle /\ SettingsFixed /\ BackendFixed

NextMenu ==
    \/ \E doc \in Documents, e \in MouseEvents :
          handleContextMenu(doc, e) /\ UNCHANGED <<normVars, settingsVars, backendVars>>
    \/ \E doc \in Documents :
          handleContextMenuCopy(doc) /\ UNCHANGED <<normVars, settingsVars, backendVars>>
    \/ handleContextMenuTranslate /\ UNCHANGED <<normVars, settingsVars, backendVars>>
    \/ handleContextMenuExplain /\ UNCHANGED <<normVars, settingsVars, backendVars>>
    \/ closeContextMenu /\ UNCHANGED <<normVars, settingsVars, backendVars>>

SpecMenu == InitMenu /\ [][NextMenu]_vars

InitSettings == NormIdle /\ MenuIdle /\ SettingsIdle /\ BackendFixed

NextSettings ==
    \/ GetGeminiSettings /\ UNCHANGED <<normVars, menuVars, backendVars>>
    \/ \E settings \in SettingsValues, setItemThrows \in BOOLEAN :
          SaveGeminiSettings(settings, setItemThrows)
              /\ UNCHANGED <<normVars, menuVars, backendVars>>

SpecSettings == InitSettings /\ [][NextSettings]_vars

\* One request followed from the caller to the generation endpoint and back.
InitBackend ==
    /\ NormIdle /\ MenuIdle /\ BackendIdle
    /\ GEMINI_API_KEY \in ServerKeys
    /\ hasWindow = TRUE
    /\ localStorage \in
          {NoItem,
           Item(JSONstringify(GeminiSettings(<<>>, <<"gemini-2.5-flash">>,
                                             <<"gemini-2.5-flash-lite">>)))}
    /\ settingsCall = [op |-> "none"]

NextBackend ==
    \/ \E text \in DispatchTexts, cb \in ContextsBefore, ca \in ContextsAfter,
          mo \in ModelOverrides :
          translateWithGemini(text, cb, ca, mo)
              /\ UNCHANGED <<normVars, menuVars, settingsVars>>
    \/ \E text \in DispatchTexts, cb \in ContextsBefore, ca \in ContextsAfter,
          mo \in ModelOverrides :
          explainDirectly(text, cb, ca, mo)
              /\ UNCHANGED <<normVars, menuVars, settingsVars>>
    \/ \E op \in Operations, bodyText \in RequestBodies :
          DirectRequest(op, bodyText)
              /\ UNCHANGED <<normVars, menuVars, settingsVars>>
    \/ /\ phase = "sent"
       /\ \E upstream \in UpstreamOutcomes(request.op) :
             RouteHandles(upstream)
              /\ UNCHANGED <<normVars, menuVars, settingsVars>>
    \/ \E answer \in NetworkOutcomes :
          NetworkAnswers(answer)
              /\ UNCHANGED <<normVars, menuVars, settingsVars>>
    \/ DispatcherSettles /\ UNCHANGED <<normVars, menuVars, settingsVars>>

SpecBackend == InitBackend /\ [][NextBackend]_vars

-----------------------------------------------------------------------------
(* Properties *)

\* C1: for every raw text, parseTranslationResponse / parseExplanationResponse
\* return a value whose primary field (translation / summary) is a string and
\* whose points is an array in which every element is a string.
C1_ResultIsWellFormed ==
    normOp # "none" =>
        LET field == IF normOp = "translate" THEN TRANSLATION ELSE SUMMARY
            points == Prop(normResult, POINTS)
        IN /\ TypeofString(Prop(normResult, field))
           /\ IsArray(points)
           /\ \A i \in 1..Len(points.a) : TypeofString(points.a[i])

\* C2: a contextmenu event sets contextMenuPosition to the event's client
\* coordinates and calls preventDefault exactly when the selection exists, is
\* not collapsed, has a character that is not white space, and the viewer
\* element exists and contains the range's common ancestor; in every other
\* case the position is what it was and preventDefault is not called.
C2_MenuOpensExactlyOnValidSelection ==
    menuCall.op = "contextmenu" =>
        LET sel == menuCall.doc.sel
            valid == /\ sel # Null
                     /\ ~sel.isCollapsed
                     /\ \E i \in 1..Len(sel.text) : sel.text[i] \notin JsWs
                     /\ menuCall.doc.viewer
                     /\ sel.where \in {"viewer", "inside"}
        IN IF valid
           THEN /\ contextMenuPosition =
                      [x |-> menuCall.e.clientX, y |-> menuCall.e.clientY]
                /\ defaultPrevented
           ELSE /\ contextMenuPosition = prevPosition
                /\ ~defaultPrevented

\* A valid event that moved a menu already open to the event's coordinates.
C2_Witness ==
    /\ menuCall.op = "contextmenu"
    /\ menuCall.doc.sel # Null
    /\ menuCall.doc.sel.where = "inside"
    /\ menuCall.doc.sel.text = <<" ", "a", " ">>
    /\ defaultPrevented
    /\ prevPosition = [x |-> 0, y |-> 0]
    /\ contextMenuPosition = [x |-> MaxCoord, y |-> 0]

\* C3: after closeContextMenu is called contextMenuPosition is null, whether
\* a position was set before the call or not.
C3_CloseClearsPosition ==
    menuCall.op = "close" => contextMenuPosition = Null

\* C4: translateWithGemini / explainDirectly called with empty text issue no
\* network request and fail with a MissingInput error.
C4_EmptyTextFailsLocally ==
    (call.kind = "dispatch" /\ call.text = <<>>) =>
        /\ networkRequests = 0
        /\ request = NoMessage
        /\ phase = "done" => clientResult.kind = "error"

\* C5: for each route and every request body: without the server credential
\* the response is 500; with it and text empty or absent the response is 400;
\* in both cases no call is made to the generation endpoint, and in every
\* other case at most one.
C5_FailFastBeforeUpstream ==
    handled # NoMessage =>
        LET b == JSONparse(handled.body)
            text == IF b.ok THEN Prop(b.val, <<"text">>) ELSE Undefined
            r == handled.result
        IN /\ GEMINI_API_KEY = <<>> =>
                 r.status = 500 /\ r.upstreamCalls = 0
           /\ (GEMINI_API_KEY # <<>> /\ text \in {Undefined, JStr(<<>>)}) =>
                 r.status = 400 /\ r.upstreamCalls = 0
           /\ r.upstreamCalls <= 1

\* C6: for every non-success upstream status s and upstream body b the route
\* responds with status s and the message of the table: 429 the fixed
\* rate-limit message, 401 and 403 the fixed invalid-key message, any other s
\* a message made of s and b; the response parser is not called.
C6_UpstreamFailureTable ==
    (/\ handled # NoMessage
     /\ handled.result.upstreamCalls = 1
     /\ handled.upstream.kind = "response"
     /\ handled.upstream.status \notin 200..299) =>
        LET s == handled.upstream.status
            b == handled.upstream.text
            message == CASE s = 429 -> MSG_RATE_LIMIT
                         [] s \in {401, 403} -> MSG_INVALID_KEY
                         [] OTHER -> <<"API error (", StatusText(s), "): ">> \o b
        IN /\ handled.result.status = s
           /\ handled.result.body =
                  JSONstringify(JObj(<<[k |-> <<"error">>, v |-> JStr(message)]>>))
           /\ handled.result.parserCalls = 0

\* The generation endpoint answered 403 with a body, and the route passed the
\* status on with the fixed message.
C6_Witness ==
    /\ handled # NoMessage
    /\ handled.result.upstreamCalls = 1
    /\ handled.upstream.kind = "response"
    /\ handled.upstream.status = 403
    /\ handled.upstream.text = <<"quota", " ", "exceeded">>
    /\ handled.result.status = 403
    /\ response.status = 403

\* C7: when the dispatcher receives a response with status 429 it fails with
\* a message that is the same for every response body.
C7_RateLimitMessageIsFixed ==
    (/\ phase = "done"
     /\ response.t = "response"
     /\ response.status = 429) =>
        /\ clientResult.kind = "error"
        /\ \A other \in {o \in NetworkOutcomes : o.kind = "response"} :
              Settle(call.op, [response EXCEPT !.body = other.text])
                  = clientResult

C9_CredentialNeverStored ==
    /\ localStorage # NoItem =>
          LET p == JSONparse(localStorage.text)
          IN (p.ok /\ p.val # JNull) =>
                 Prop(p.val, <<"apiKey">>) \in {Undefined, JStr(<<>>)}
    /\ settingsCall.op = "get" =>
          Prop(settingsCall.result, <<"apiKey">>) = JStr(<<>>)

\* C10 as claimed: for every raw text whose fence-stripped form parses as JSON
\* but fails the direct-parse check, the result's primary field is the
\* candidate's if that is a string and the empty string otherwise, and its
\* points are the string elements of the candidate's points array in order
\* (none when it has no points array); the candidate is the first element of
\* a parsed array, and the parsed value otherwise.
C10_LenientStageAlways ==
    normOp # "none" =>
        LET field == IF normOp = "translate" THEN TRANSLATION ELSE SUMMARY
            p == JSONparse(Cleaned(normText))
        IN (/\ p.ok
            /\ ~(Prop(p.val, field) # Undefined /\ IsArray(Prop(p.val, POINTS)))) =>
               LET candidate == IF IsArray(p.val) THEN First(p.val) ELSE p.val
                   primary == Prop(candidate, field)
                   points == Prop(candidate, POINTS)
               IN normResult =
                      JObj(<<[k |-> field,
                              v |-> IF primary.t = "str" THEN primary
                                    ELSE JStr(<<>>)],
                             [k |-> POINTS,
                              v |-> JArr(IF points.t = "arr"
                                         THEN SelectSeq(points.a,
                                                        LAMBDA x : x.t = "str")
                                         ELSE <<>>)]>>)

\* C10: as above when the candidate is truthy; when the candidate is falsy
\* (null, false, 0, the empty string, or the missing first element of an
\* empty array) the result is the raw text as the primary field with no
\* points.
C10_LenientStageOnTruthyCandidate ==
    normOp # "none" =>
        LET field == IF normOp = "translate" THEN TRANSLATION ELSE SUMMARY
            p == JSONparse(Cleaned(normText))
        IN (/\ p.ok
            /\ ~(Prop(p.val, field) # Undefined /\ IsArray(Prop(p.val, POINTS)))) =>
               LET candidate == IF IsArray(p.val) THEN First(p.val) ELSE p.val
                   primary == Prop(candidate, field)
                   points == Prop(candidate, POINTS)
               IN IF candidate \in {Undefined, JNull, JBool(FALSE), JNum(0),
                                    JStr(<<>>)}
                  THEN normResult =
                           JObj(<<[k |-> field, v |-> JStr(normText)],
                                  [k |-> POINTS, v |-> JArr(<<>>)]>>)
                  ELSE normResult =
                           JObj(<<[k |-> field,
                                   v |-> IF primary.t = "str" THEN primary
                                         ELSE JStr(<<>>)],
                                  [k |-> POINTS,
                                   v |-> JArr(IF points.t = "arr"
                                              THEN SelectSeq(points.a,
                                                       LAMBDA x : x.t = "str")
                                              ELSE <<>>)]>>)

\* An array-wrapped object behind a fence, with a number for the summary and
\* a nested object among its points: the summary comes back empty and the
\* nested object is dropped.
C10_Witness ==
    /\ normOp = "explain"
    /\ normText =
           <<FENCE, "json", "\n">>
               \o JSONstringify(JArr(<<JObj(<<
                      [k |-> SUMMARY, v |-> JNum(1)],
                      [k |-> POINTS,
                       v |-> JArr(<<JStr(<<"p1">>),
                                    JObj(<<[k |-> <<"bad">>, v |-> JNum(1)]>>)>>)]>>)>>))
               \o <<"\n", FENCE>>
    /\ normResult = JObj(<<[k |-> SUMMARY, v |-> JStr(<<>>)],
                           [k |-> POINTS, v |-> JArr(<<JStr(<<"p1">>)>>)]>>)

\* C11: for every non-empty raw text in which no stage finds the primary
\* field as a string nor a string among the points (JSON without the required
\* fields, a bare number, a bare string), the result is the raw text as the
\* primary field with no points, and never an empty primary field together
\* with empty points.
C11_FallsBackWhenNothingFound ==
    normOp # "none" =>
        LET field == IF normOp = "translate" THEN TRANSLATION ELSE SUMMARY
            p == JSONparse(Cleaned(normText))
            candidate == IF ~p.ok THEN Undefined
                         ELSE IF IsArray(p.val) THEN First(p.val) ELSE p.val
            points == Prop(candidate, POINTS)
            found == \/ Prop(candidate, field).t = "str"
                     \/ /\ points.t = "arr"
                        /\ \E i \in 1..Len(points.a) : points.a[i].t = "str"
        IN (normText # <<>> /\ ~found) =>
               /\ normResult =
                      JObj(<<[k |-> field, v |-> JStr(normText)],
                             [k |-> POINTS, v |-> JArr(<<>>)]>>)
               /\ ~(/\ Prop(normResult, field) = JStr(<<>>)
                    /\ Prop(normResult, POINTS) = JArr(<<>>))

\* C12: for every text, contextBefore and contextAfter (an absent context is
\* the empty string) the prompt sent to the generation endpoint is the
\* operation's template with its {text}, {context_before} and {context_after}
\* placeholders each replaced by the corresponding value verbatim, also when
\* a value itself holds placeholder text.
C12_PromptSubstitutesVerbatim ==
    (/\ handled # NoMessage
     /\ handled.result.upstreamCalls = 1
     /\ Prop(JSONparse(handled.body).val, <<"text">>).t = "str"
     /\ Prop(JSONparse(handled.body).val, <<"contextBefore">>).t
            \in {"str", "undefined"}
     /\ Prop(JSONparse(handled.body).val, <<"contextAfter">>).t
            \in {"str", "undefined"}) =>
        LET body == JSONparse(handled.body).val
            valueOf(key) == IF Prop(body, key).t = "str" THEN Prop(body, key).s
                            ELSE <<>>
            template == IF handled.op = "translate" THEN TRANSLATION_PROMPT
                        ELSE EXPLANATION_PROMPT
            filled[i \in 0..Len(template)] ==
                IF i = 0 THEN <<>>
                ELSE filled[i - 1] \o
                     (CASE template[i] = "{text}" -> valueOf(<<"text">>)
                        [] template[i] = "{context_before}" ->
                               valueOf(<<"contextBefore">>)
                        [] template[i] = "{context_after}" ->
                               valueOf(<<"contextAfter">>)
                        [] OTHER -> <<template[i]>>)
        IN handled.result.upstreamRequest.prompt = filled[Len(template)]

\* C13: for every raw text that is not JSON, neither as it is nor after the
\* fences are stripped, the result is the raw text itself as the primary
\* field (untrimmed, fences kept) with no points.
C13_NonJsonFallsBackVerbatim ==
    (/\ normOp # "none"
     /\ ~JSONparse(normText).ok
     /\ ~JSONparse(Cleaned(normText)).ok) =>
        normResult =
            JObj(<<[k |-> IF normOp = "translate" THEN TRANSLATION ELSE SUMMARY,
                    v |-> JStr(normText)],
                   [k |-> POINTS, v |-> JArr(<<>>)]>>)

\* Prose inside a fence with white space around it: the whole text comes back
\* as the translation, white space and fences included.
C13_Witness ==
    /\ normOp = "translate"
    /\ normText = <<" ", FENCE, "\n", "not", " ", "json", "\n", FENCE, "\n">>
    /\ Cleaned(normText) = <<"not", " ", "json">>
    /\ Prop(normResult, TRANSLATION) = JStr(normText)
    /\ Prop(normResult, POINTS) = JArr(<<>>)

\* C14: for every JSON text j that passes the direct-parse check (primary
\* field present, points an array), the result for j between a leading fence,
\* with or without the json tag, and a trailing fence, with white space
\* around them, is the result for j itself.
C14_FencedEqualsBare ==
    normOp # "none" =>
        LET field == IF normOp = "translate" THEN TRANSLATION ELSE SUMMARY
            n == Len(normText)
            Ws(q) == \A i \in 1..Len(q) : q[i] \in JsWs
            Lead(q) ==
                \E m \in 1..Len(q) :
                    /\ Ws(SubSeq(q, 1, m - 1))
                    /\ q[m] = FENCE
                    /\ \/ Ws(SubSeq(q, m + 1, Len(q)))
                       \/ /\ Len(q) > m
                          /\ q[m + 1] = "json"
                          /\ Ws(SubSeq(q, m + 2, Len(q)))
            Trail(q) ==
                \E m \in 1..Len(q) :
                    /\ Ws(SubSeq(q, 1, m - 1))
                    /\ q[m] = FENCE
                    /\ Ws(SubSeq(q, m + 1, Len(q)))
            Passes(j) ==
                Let(JSONparse(j), LAMBDA p :
                    /\ p.ok
                    /\ Prop(p.val, field) # Undefined
                    /\ IsArray(Prop(p.val, POINTS)))
        IN \A a \in {x \in 1..n : Lead(SubSeq(normText, 1, x))} :
               \A b \in {y \in (a + 1)..n : Trail(SubSeq(normText, y, n))} :
                   Passes(SubSeq(normText, a + 1, b - 1)) =>
                       normResult =
                           IF normOp = "translate"
                           THEN parseTranslationResponse(
                                    SubSeq(normText, a + 1, b - 1))
                           ELSE parseExplanationResponse(
                                    SubSeq(normText, a + 1, b - 1))

\* A summary with two points between a json fence and a closing fence, with
\* line breaks and a trailing space: the object inside comes back.
C14_Witness ==
    /\ normOp = "explain"
    /\ normText =
           <<"\n", FENCE, "json", "\n">>
               \o JSONstringify(JObj(<<
                      [k |-> SUMMARY, v |-> JStr(<<"cat">>)],
                      [k |-> POINTS,
                       v |-> JArr(<<JStr(<<"p1">>), JStr(<<"p2">>)>>)]>>))
               \o <<"\n", FENCE, " ">>
    /\ ~JSONparse(normText).ok
    /\ normResult = JObj(<<[k |-> SUMMARY, v |-> JStr(<<"cat">>)],
                           [k |-> POINTS,
                            v |-> JArr(<<JStr(<<"p1">>), JStr(<<"p2">>)>>)]>>)

====
